---------------------------- MODULE Spec2Model ----------------------------
(***************************************************************************)
(* A model of go/types Scope (src/go/types/scope.go): a scope is a parent  *)
(* link plus an ordered slice of objects; objects are inserted and looked  *)
(* up by name, or by package path and name.                                *)
(*                                                                         *)
(* Pointers are modelled as numbers: scopes are 1, 2, ... in the order     *)
(* NewScope allocated them and Nil (0) is the nil pointer.  A *Package is  *)
(* modelled by its path, with NilPkg the nil *Package.  A Go run-time      *)
(* panic (nil dereference, index out of range) is the outcome Panic.       *)
(***************************************************************************)
EXTENDS Integers, Sequences, FiniteSets, TLC

\* ------------------------------------------------------------- bounds

\* the scopes the driver allocates and the Insert calls it makes
MaxScopes == 2
MaxInserts == 2

\* ------------------------------------------------------------ values

\* the nil *Scope and the nil Object
Nil == 0

\* Index's "not found" result
NotFound == -1

\* the nil *Package (objects of the universe scope have no package)
NilPkg == "nil"

\* package paths: A and B declare objects, C only ever qualifies a lookup
PkgPaths == {"A", "B", "C"}
Qualifiers == {NilPkg} \cup PkgPaths

\* identifier spellings: one unexported, one exported
Names == {"x", "X"}

\* ast.IsExported(name): the name begins with an upper-case letter
IsExported(name) == name \in {"X"}

\* The objects the driver declares: Object.Name() and Object.Pkg().
\* 2 and 3 are two objects with one identity; 5 and 6 share an exported name.
ObjTable ==
  << [name |-> "x", pkg |-> NilPkg],
     [name |-> "x", pkg |-> "A"],
     [name |-> "x", pkg |-> "A"],
     [name |-> "x", pkg |-> "B"],
     [name |-> "X", pkg |-> "A"],
     [name |-> "X", pkg |-> "B"] >>

Objects == 1 .. Len(ObjTable)
Name(obj) == ObjTable[obj].name
Pkg(obj) == ObjTable[obj].pkg

\* an operation's outcome: a returned value, or a run-time panic
Ok(v) == [panic |-> FALSE, val |-> v]
Panic == [panic |-> TRUE, val |-> Nil]

\* ------------------------------------------------------------- state

VARIABLES
  parent,    \* parent[s]: Scope.parent of the s-th allocated scope
  entries,   \* entries[s]: Scope.entries, a sequence of objects
  owner,     \* owner[obj]: the object's scope back-reference (setParent)
  inserts,   \* number of Insert calls made so far
  last,      \* the last call: operation, arguments, outcome, state before it
  ctx,       \* ctx[c]: the Insert call execution context c is inside (SpecRace)
  raced      \* an Insert began on a scope another Insert was inside (SpecRace)

vars == <<parent, entries, owner, inserts, last, ctx, raced>>

\* the execution contexts of SpecRace
Ctxs == {1, 2}
Idle == [pc |-> "idle", s |-> Nil, obj |-> Nil, tmp |-> <<>>, ret |-> Ok(Nil),
         returned |-> FALSE]

Scopes == 1 .. Len(parent)
ScopeRefs == {Nil} \cup Scopes

NoCall ==
  [op |-> "none", s |-> Nil, pkg |-> NilPkg, name |-> "", arg |-> Nil,
   ret |-> Ok(Nil), pre |-> <<>>, preOwner |-> Nil, visited |-> <<>>,
   parents |-> <<>>]

\* a call's record: it keeps the parent links as they were at the call
Called == [NoCall EXCEPT !.parents = parent]

Init ==
  /\ parent = <<>>
  /\ entries = <<>>
  /\ owner = [obj \in Objects |-> Nil]
  /\ inserts = 0
  /\ last = NoCall
  /\ ctx = [c \in Ctxs |-> Idle]
  /\ raced = FALSE

\* ------------------------------------------------------ read operations

\* func (s *Scope) Parent() *Scope: s.parent, a nil dereference for s == nil
Parent(s) == IF s = Nil THEN Panic ELSE Ok(parent[s])

\* NumEntries without its s == nil test
NumEntriesNoNilCheck(s) == IF s = Nil THEN Panic ELSE Ok(Len(entries[s]))

\* func (s *Scope) NumEntries() int
NumEntries(s) == IF s = Nil THEN Ok(0) ELSE Ok(Len(entries[s]))

\* func (s *Scope) IsEmpty() bool
IsEmpty(s) == Ok(s = Nil \/ Len(entries[s]) = 0)

\* func (s *Scope) At(i int) Object: s.entries[i], 0-based
At(s, i) ==
  IF s = Nil THEN Panic
  ELSE IF i < 0 \/ i >= Len(entries[s]) THEN Panic
  ELSE Ok(entries[s][i + 1])

\* the fast path of Index: for i, obj := range es { if obj.Name() == name }
RECURSIVE ScanName(_, _, _)
ScanName(es, i, name) ==
  IF i >= Len(es) THEN Ok(NotFound)
  ELSE IF Name(es[i + 1]) = name THEN Ok(i)
  ELSE ScanName(es, i + 1, name)

\* the slow path of Index without the ast.IsExported(name) disjunct
RECURSIVE ScanPkgNameNoExport(_, _, _, _)
ScanPkgNameNoExport(es, i, pkg, name) ==
  IF i >= Len(es) THEN Ok(NotFound)
  ELSE IF Name(es[i + 1]) # name THEN ScanPkgNameNoExport(es, i + 1, pkg, name)
  ELSE IF Pkg(es[i + 1]) = NilPkg THEN Panic
  ELSE IF Pkg(es[i + 1]) = pkg THEN Ok(i)
  ELSE ScanPkgNameNoExport(es, i + 1, pkg, name)

\* the slow path of Index:
\*   obj.Name() == name && (ast.IsExported(name) || obj.Pkg().path == pkg.path)
\* evaluated left to right; obj.Pkg().path dereferences a nil *Package
RECURSIVE ScanPkgName(_, _, _, _)
ScanPkgName(es, i, pkg, name) ==
  IF i >= Len(es) THEN Ok(NotFound)
  ELSE IF Name(es[i + 1]) # name THEN ScanPkgName(es, i + 1, pkg, name)
  ELSE IF IsExported(name) THEN Ok(i)
  ELSE IF Pkg(es[i + 1]) = NilPkg THEN Panic
  ELSE IF Pkg(es[i + 1]) = pkg THEN Ok(i)
  ELSE ScanPkgName(es, i + 1, pkg, name)

\* Index with both loops starting at the second entry
IndexFromOne(s, pkg, name) ==
  IF s = Nil THEN Ok(NotFound)
  ELSE IF pkg = NilPkg THEN ScanName(entries[s], 1, name)
  ELSE ScanPkgName(entries[s], 1, pkg, name)

\* func (s *Scope) Index(pkg *Package, name string) int
Index(s, pkg, name) ==
  IF s = Nil THEN Ok(NotFound)
  ELSE IF pkg = NilPkg THEN ScanName(entries[s], 0, name)
  ELSE ScanPkgName(entries[s], 0, pkg, name)

\* Lookup that goes on to the parent scope when s has no match
LookupThroughParent(s, pkg, name) ==
  LET i == Index(s, pkg, name)
      p == IF s = Nil THEN Nil ELSE parent[s]
      j == Index(p, pkg, name)
  IN  IF i.panic THEN Panic
      ELSE IF i.val >= 0 THEN At(s, i.val)
      ELSE IF j.panic THEN Panic
      ELSE IF j.val >= 0 THEN At(p, j.val)
      ELSE Ok(Nil)

\* func (s *Scope) Lookup(pkg *Package, name string) Object
Lookup(s, pkg, name) ==
  LET i == Index(s, pkg, name)
  IN  IF i.panic THEN Panic
      ELSE IF i.val >= 0 THEN At(s, i.val)
      ELSE Ok(Nil)

\* the loop of LookupParent without its s = s.parent
RECURSIVE WalkNoAdvance(_, _, _)
WalkNoAdvance(s, name, seen) ==
  IF s = Nil THEN [panic |-> FALSE, val |-> Nil, visited |-> seen, ends |-> TRUE]
  ELSE IF Len(seen) > Len(parent)
       THEN [panic |-> FALSE, val |-> Nil, visited |-> seen, ends |-> FALSE]
  ELSE LET i == Index(s, NilPkg, name)
       IN  IF i.val >= 0
           THEN [panic |-> At(s, i.val).panic, val |-> At(s, i.val).val,
                 visited |-> Append(seen, s), ends |-> TRUE]
           ELSE WalkNoAdvance(s, name, Append(seen, s))

\* the loop of LookupParent preferring what an enclosing scope declares
RECURSIVE WalkOuterFirst(_, _, _)
WalkOuterFirst(s, name, seen) ==
  IF s = Nil THEN [panic |-> FALSE, val |-> Nil, visited |-> seen, ends |-> TRUE]
  ELSE IF Len(seen) > Len(parent)
       THEN [panic |-> FALSE, val |-> Nil, visited |-> seen, ends |-> FALSE]
  ELSE LET i == Index(s, NilPkg, name)
           up == WalkOuterFirst(parent[s], name, Append(seen, s))
       IN  IF up.val # Nil \/ i.val < 0 THEN up
           ELSE [panic |-> At(s, i.val).panic, val |-> At(s, i.val).val,
                 visited |-> up.visited, ends |-> up.ends]

\* The loop of LookupParent from scope s, having already visited `seen`.
\* The result carries the scopes visited; the loop is cut off (ends is FALSE)
\* once it has made more iterations than there are scopes.
RECURSIVE WalkParents(_, _, _)
WalkParents(s, name, seen) ==
  IF s = Nil THEN [panic |-> FALSE, val |-> Nil, visited |-> seen, ends |-> TRUE]
  ELSE IF Len(seen) > Len(parent)
       THEN [panic |-> FALSE, val |-> Nil, visited |-> seen, ends |-> FALSE]
  ELSE LET i == Index(s, NilPkg, name)
       IN  IF i.val >= 0
           THEN [panic |-> At(s, i.val).panic, val |-> At(s, i.val).val,
                 visited |-> Append(seen, s), ends |-> TRUE]
           ELSE WalkParents(parent[s], name, Append(seen, s))

\* func (s *Scope) LookupParent(name string) Object
LookupParent(s, name) ==
  LET w == WalkParents(s, name, <<>>) IN [panic |-> w.panic, val |-> w.val]

\* -------------------------------------------------------------- actions

\* func NewScope(parent *Scope) *Scope: a new, empty scope
NewScope(p) ==
  /\ parent' = Append(parent, p)
  /\ entries' = Append(entries, <<>>)
  /\ last' = [Called EXCEPT !.op = "NewScope", !.s = p,
                            !.ret = Ok(Len(parent) + 1)]
  /\ UNCHANGED <<owner, inserts, ctx, raced>>

\* obj.setParent(s): the object records s as its scope
setParent(obj, s) == owner' = [owner EXCEPT ![obj] = s]

\* func (s *Scope) Insert(obj Object) Object
Insert(s, obj) ==
  LET alt == Lookup(s, Pkg(obj), Name(obj))
      call == [Called EXCEPT !.op = "Insert", !.s = s, !.arg = obj,
                             !.pkg = Pkg(obj), !.name = Name(obj),
                             !.pre = IF s = Nil THEN <<>> ELSE entries[s],
                             !.preOwner = owner[obj]]
  IN  /\ inserts' = inserts + 1
      /\ UNCHANGED <<ctx, raced>>
      /\ IF alt.panic
         THEN /\ last' = [call EXCEPT !.ret = Panic]
              /\ UNCHANGED <<parent, entries, owner>>
         ELSE IF alt.val # Nil
         THEN /\ last' = [call EXCEPT !.ret = alt]
              /\ UNCHANGED <<parent, entries, owner>>
         ELSE IF s = Nil
         THEN \* s.entries = ... on a nil receiver
              /\ last' = [call EXCEPT !.ret = Panic]
              /\ UNCHANGED <<parent, entries, owner>>
         ELSE /\ entries' = [entries EXCEPT ![s] = Append(entries[s], obj)]
              /\ setParent(obj, s)
              /\ last' = [call EXCEPT !.ret = Ok(Nil)]
              /\ UNCHANGED parent

\* the driver's read calls; each records its outcome and changes no scope
CallParent(s) ==
  /\ last' = [Called EXCEPT !.op = "Parent", !.s = s, !.ret = Parent(s)]
  /\ UNCHANGED <<parent, entries, owner, inserts, ctx, raced>>

CallNumEntries(s) ==
  /\ last' = [Called EXCEPT !.op = "NumEntries", !.s = s, !.ret = NumEntries(s)]
  /\ UNCHANGED <<parent, entries, owner, inserts, ctx, raced>>

CallIsEmpty(s) ==
  /\ last' = [Called EXCEPT !.op = "IsEmpty", !.s = s, !.ret = IsEmpty(s)]
  /\ UNCHANGED <<parent, entries, owner, inserts, ctx, raced>>

CallAt(s, i) ==
  /\ last' = [Called EXCEPT !.op = "At", !.s = s, !.arg = i, !.ret = At(s, i)]
  /\ UNCHANGED <<parent, entries, owner, inserts, ctx, raced>>

CallIndex(s, pkg, name) ==
  /\ last' = [Called EXCEPT !.op = "Index", !.s = s, !.pkg = pkg,
                            !.name = name, !.ret = Index(s, pkg, name)]
  /\ UNCHANGED <<parent, entries, owner, inserts, ctx, raced>>

CallLookup(s, pkg, name) ==
  /\ last' = [Called EXCEPT !.op = "Lookup", !.s = s, !.pkg = pkg,
                            !.name = name, !.ret = Lookup(s, pkg, name)]
  /\ UNCHANGED <<parent, entries, owner, inserts, ctx, raced>>

CallLookupParent(s, name) ==
  /\ last' = [Called EXCEPT !.op = "LookupParent", !.s = s, !.name = name,
                            !.ret = LookupParent(s, name),
                            !.visited = WalkParents(s, name, <<>>).visited]
  /\ UNCHANGED <<parent, entries, owner, inserts, ctx, raced>>

\* The read operations.  A read changes no scope, so every call the driver
\* can make after a read it can make from the state before it: the model
\* explores the driver's next call from there (AtCallSite) and keeps a read's
\* outcome in `last` only to examine it.
ReadOps ==
  {"Parent", "NumEntries", "IsEmpty", "At", "Index", "Lookup", "LookupParent"}
AtCallSite == last.op \notin ReadOps

Next ==
  \/ \E p \in ScopeRefs :
       AtCallSite /\ Len(parent) < MaxScopes /\ NewScope(p)
  \/ \E s \in ScopeRefs, obj \in Objects :
       AtCallSite /\ inserts < MaxInserts /\ Insert(s, obj)
  \/ \E s \in ScopeRefs : AtCallSite /\ CallParent(s)
  \/ \E s \in ScopeRefs : AtCallSite /\ CallNumEntries(s)
  \/ \E s \in ScopeRefs : AtCallSite /\ CallIsEmpty(s)
  \/ \E s \in ScopeRefs, i \in 0 .. MaxInserts : AtCallSite /\ CallAt(s, i)
  \/ \E s \in ScopeRefs, pkg \in Qualifiers, name \in Names :
       AtCallSite /\ CallIndex(s, pkg, name)
  \/ \E s \in ScopeRefs, pkg \in Qualifiers, name \in Names :
       AtCallSite /\ CallLookup(s, pkg, name)
  \/ \E s \in ScopeRefs, name \in Names :
       AtCallSite /\ CallLookupParent(s, name)

Spec == Init /\ [][Next]_vars

\* ------------------------------------------------ concurrent Insert

\* Insert as the steps two execution contexts can interleave: the call, the
\* Lookup, the load of s.entries for append, the store of the appended slice,
\* and setParent.  Nothing in Scope synchronises them.
Busy(c) == ctx[c].pc # "idle"

InsertCall(c, s, obj) ==
  /\ ~Busy(c)
  /\ ctx' = [ctx EXCEPT ![c] = [Idle EXCEPT !.pc = "lookup", !.s = s, !.obj = obj]]
  /\ raced' = (raced \/ \E d \in Ctxs \ {c} : Busy(d) /\ ctx[d].s = s)
  /\ inserts' = inserts + 1
  /\ UNCHANGED <<parent, entries, owner, last>>

\* if alt := s.Lookup(obj.Pkg(), obj.Name()); alt != nil { return alt }
InsertLookup(c) ==
  LET alt == Lookup(ctx[c].s, Pkg(ctx[c].obj), Name(ctx[c].obj))
  IN  /\ ctx[c].pc = "lookup"
      /\ ctx' = [ctx EXCEPT ![c] =
                   IF alt.panic \/ alt.val # Nil
                   THEN [@ EXCEPT !.pc = "idle", !.ret = alt, !.returned = TRUE]
                   ELSE [@ EXCEPT !.pc = "load"]]
      /\ UNCHANGED <<parent, entries, owner, inserts, last, raced>>

\* append(s.entries, obj): the slice is read ...
InsertLoad(c) ==
  /\ ctx[c].pc = "load"
  /\ ctx' = [ctx EXCEPT ![c] = [@ EXCEPT !.pc = "store", !.tmp = entries[ctx[c].s]]]
  /\ UNCHANGED <<parent, entries, owner, inserts, last, raced>>

\* ... and s.entries = the slice read, with obj appended
InsertStore(c) ==
  /\ ctx[c].pc = "store"
  /\ entries' = [entries EXCEPT ![ctx[c].s] = Append(ctx[c].tmp, ctx[c].obj)]
  /\ ctx' = [ctx EXCEPT ![c] = [@ EXCEPT !.pc = "setParent", !.tmp = <<>>]]
  /\ UNCHANGED <<parent, owner, inserts, last, raced>>

\* obj.setParent(s); return nil
InsertSetParent(c) ==
  /\ ctx[c].pc = "setParent"
  /\ setParent(ctx[c].obj, ctx[c].s)
  /\ ctx' = [ctx EXCEPT ![c] =
               [@ EXCEPT !.pc = "idle", !.ret = Ok(Nil), !.returned = TRUE]]
  /\ UNCHANGED <<parent, entries, inserts, last, raced>>

NextRace ==
  \/ \E p \in ScopeRefs :
       (\A c \in Ctxs : ~Busy(c)) /\ Len(parent) < MaxScopes /\ NewScope(p)
  \/ \E c \in Ctxs, s \in Scopes, obj \in Objects :
       inserts < MaxInserts /\ InsertCall(c, s, obj)
  \/ \E c \in Ctxs : InsertLookup(c)
  \/ \E c \in Ctxs : InsertLoad(c)
  \/ \E c \in Ctxs : InsertStore(c)
  \/ \E c \in Ctxs : InsertSetParent(c)

SpecRace == Init /\ [][NextRace]_vars

\* ---------------------------------------------------------- properties

\* The identity rule between two objects: "Two identifiers are different if
\* they are spelled differently, or if they appear in different packages and
\* are not exported.  Otherwise, they are the same."
SameIdent(a, b) ==
  Name(a) = Name(b) /\ (IsExported(Name(a)) \/ Pkg(a) = Pkg(b))

\* The identity rule between an entry and a query (qualifier, name): a query
\* without qualifier matches on the name alone.
Matches(e, pkg, name) ==
  /\ Name(e) = name
  /\ (pkg = NilPkg \/ IsExported(name) \/ Pkg(e) = pkg)

\* the positions (0-based) of the entries of es that match the query
MatchesAt(es, pkg, name) ==
  {i \in 0 .. Len(es) - 1 : Matches(es[i + 1], pkg, name)}

Min(S) == CHOOSE m \in S : \A n \in S : m <= n

Elems(es) == {es[k] : k \in 1 .. Len(es)}

InsertedInto ==
  last.op = "Insert" /\ last.s # Nil

\* C1  Conflict idempotence: when the target scope already holds an entry e
\* with the identity of obj, Insert(obj) returns e, leaves the entries as they
\* were and does not set obj's scope; a conflict Insert reports is always an
\* entry of the target scope itself (the first one its query matches), and
\* with no match in the target scope Insert reports none, whatever the
\* ancestors hold.
C1_ConflictIdempotence ==
  InsertedInto =>
    /\ \A k \in 1 .. Len(last.pre) :
         SameIdent(last.pre[k], last.arg) =>
           /\ last.ret = Ok(last.pre[k])
           /\ entries[last.s] = last.pre
           /\ owner[last.arg] = last.preOwner
    /\ LET m == MatchesAt(last.pre, last.pkg, last.name)
       IN  IF m = {}
           THEN last.ret.val = Nil
           ELSE /\ last.ret = Ok(last.pre[Min(m) + 1])
                /\ entries[last.s] = last.pre
                /\ owner[last.arg] = last.preOwner

\* C1 witness: a second object with the identity of an entry was inserted and
\* the entry, not the new object, came back
C1_Witness ==
  /\ InsertedInto
  /\ last.ret.val # Nil
  /\ last.ret.val # last.arg
  /\ SameIdent(last.ret.val, last.arg)
  /\ Pkg(last.arg) # NilPkg
  /\ Len(entries[last.s]) = 1

\* C2  Order preservation: a successful Insert appends at the end and moves
\* or removes nothing, a conflicting one changes nothing, and an object whose
\* identity differs from every entry's is inserted: NumEntries() grows by one
\* and At(NumEntries()-1) is the object.
C2_OrderPreservation ==
  InsertedInto =>
    /\ (last.ret = Ok(Nil) => entries[last.s] = Append(last.pre, last.arg))
    /\ (last.ret # Ok(Nil) => entries[last.s] = last.pre)
    /\ (\A k \in 1 .. Len(last.pre) : ~SameIdent(last.pre[k], last.arg)) =>
         /\ last.ret = Ok(Nil)
         /\ NumEntries(last.s) = Ok(Len(last.pre) + 1)
         /\ At(last.s, Len(last.pre)) = Ok(last.arg)

\* C3  Uniqueness (I1): no scope holds two entries that are the same
\* identifier: equal names, and the name exported or the packages equal.
C3_Uniqueness ==
  \A s \in Scopes :
    \A i, j \in 1 .. Len(entries[s]) :
      i # j => ~SameIdent(entries[s][i], entries[s][j])

\* C3 witness: a scope holds an exported name and the Insert of the same
\* exported name from another package was refused
C3_Witness ==
  /\ InsertedInto
  /\ IsExported(last.name)
  /\ last.ret.val # Nil
  /\ Pkg(last.ret.val) # Pkg(last.arg)
  /\ entries[last.s] = <<last.ret.val>>

\* C4  Single ownership (I2): a successful Insert only ever sets the scope of
\* an object that has none yet (the reference is assigned at most once and
\* never reassigned), and every entry of a scope s has s as its scope.
C4_SingleOwnership ==
  /\ (InsertedInto /\ last.ret = Ok(Nil) => last.preOwner = Nil)
  /\ \A s \in Scopes :
       \A k \in 1 .. Len(entries[s]) : owner[entries[s][k]] = s

\* C5  Visibility law: Index with a qualifier returns the smallest position
\* whose entry has the name and (the name is exported or the entry's package
\* path is the qualifier's), and not-found when there is none; Lookup returns
\* the entry at that position, or nil.
C5_VisibilityLaw ==
  last.op \in {"Index", "Lookup"} /\ last.pkg # NilPkg /\ last.s # Nil =>
    LET m == MatchesAt(entries[last.s], last.pkg, last.name)
    IN  IF last.op = "Index"
        THEN last.ret = Ok(IF m = {} THEN NotFound ELSE Min(m))
        ELSE last.ret = Ok(IF m = {} THEN Nil ELSE entries[last.s][Min(m) + 1])

\* the scopes from s outwards: s, parent(s), parent(parent(s)), ...
RECURSIVE ChainFrom(_, _)
ChainFrom(s, n) ==
  IF s = Nil \/ n = 0 THEN <<>> ELSE <<s>> \o ChainFrom(parent[s], n - 1)
Chain(s) == ChainFrom(s, Len(parent))

Declares(s, name) == \E e \in Elems(entries[s]) : Name(e) = name

\* C6  Innermost-wins shadowing: LookupParent(name) from s returns the first
\* entry, in insertion order, with that name in the nearest scope of s,
\* parent(s), ... that has one, whatever its package; an ancestor's entry only
\* if no nearer scope declares the name; nil exactly when none declares it.
C6_InnermostWins ==
  last.op = "LookupParent" =>
    LET ch == Chain(last.s)
        decl == {k \in 1 .. Len(ch) : Declares(ch[k], last.name)}
    IN  IF decl = {}
        THEN last.ret = Ok(Nil)
        ELSE LET t == ch[Min(decl)]
             IN  last.ret =
                   Ok(entries[t][Min(MatchesAt(entries[t], NilPkg, last.name)) + 1])

\* C6 witness: parent and child both declare the name and LookupParent from
\* the child returned the child's entry
C6_Witness ==
  /\ last.op = "LookupParent"
  /\ last.s # Nil
  /\ parent[last.s] # Nil
  /\ Declares(parent[last.s], last.name)
  /\ last.ret.val \in Elems(entries[last.s])
  /\ last.ret.val \notin Elems(entries[parent[last.s]])

\* the read operation `op` applied to scope s with the arguments given
Read(op, s, pkg, name, arg) ==
  CASE op = "Parent" -> Parent(s)
    [] op = "NumEntries" -> NumEntries(s)
    [] op = "IsEmpty" -> IsEmpty(s)
    [] op = "At" -> At(s, arg)
    [] op = "Index" -> Index(s, pkg, name)
    [] op = "Lookup" -> Lookup(s, pkg, name)
    [] op = "LookupParent" -> LookupParent(s, name)

EmptyRoots == {t \in Scopes : parent[t] = Nil /\ entries[t] = <<>>}

\* what the read operation `op` is to give on an absent scope
AbsentResult(op) ==
  CASE op = "Parent" -> Ok(Nil)
    [] op = "NumEntries" -> Ok(0)
    [] op = "IsEmpty" -> Ok(TRUE)
    [] op = "At" -> Panic
    [] op = "Index" -> Ok(NotFound)
    [] op = "Lookup" -> Ok(Nil)
    [] op = "LookupParent" -> Ok(Nil)

AbsentActsEmpty(ops) ==
  last.op \in ops /\ last.s = Nil =>
    /\ last.ret = AbsentResult(last.op)
    /\ last.visited = <<>>
    /\ \A t \in EmptyRoots :
         last.ret = Read(last.op, t, last.pkg, last.name, last.arg)

\* C7 as stated  Absence/empty equivalence (I3): every read operation,
\* Parent included, gives on an absent scope what it gives on a parentless
\* scope with no entries; Parent yields absent.
C7_AbsenceEmptyEquivalence == AbsentActsEmpty(ReadOps)

\* C7 as amended  Every read operation other than Parent gives on an absent
\* scope what it gives on a parentless scope with no entries (NumEntries 0,
\* IsEmpty true, Index not-found, Lookup and LookupParent nil at once, At
\* fails on both); Parent on an absent scope fails.
C7_AbsentActsEmptyButParent ==
  /\ AbsentActsEmpty(ReadOps \ {"Parent"})
  /\ (last.op = "Parent" /\ last.s = Nil => last.ret = Panic)

\* C7 witness: a qualified Lookup on the absent scope, with an empty root
\* scope at hand to compare it with
C7_Witness ==
  /\ last.op = "Lookup"
  /\ last.s = Nil
  /\ last.pkg # NilPkg
  /\ EmptyRoots # {}

\* C8  Index and Lookup are total: whatever the scope holds and whatever the
\* query, they return and never fail; hence Insert into a scope returns too,
\* with a conflict or with success.
C8_TotalQueries ==
  /\ (last.op \in {"Index", "Lookup"} => ~last.ret.panic)
  /\ (InsertedInto => ~last.ret.panic)

NoDup(q) == \A i, j \in 1 .. Len(q) : i # j => q[i] # q[j]

ChainsEnd ==
  /\ \A s \in Scopes : parent[s] \in 0 .. s - 1
  /\ \A s \in ScopeRefs, name \in Names :
       LET w == WalkParents(s, name, <<>>)
           ch == Chain(s)
       IN  /\ w.ends
           /\ NoDup(w.visited)
           /\ Len(w.visited) <= Len(ch)
           /\ w.visited = SubSeq(ch, 1, Len(w.visited))
           /\ ((\A k \in 1 .. Len(ch) : ~Declares(ch[k], name)) =>
                 w.val = Nil /\ w.visited = ch)
  /\ (last.op = "LookupParent" =>
        /\ NoDup(last.visited)
        /\ last.visited = SubSeq(Chain(last.s), 1, Len(last.visited)))

\* the last call left the parent of every scope that existed as it was
ParentsKept ==
  /\ Len(last.parents) <= Len(parent)
  /\ \A s \in 1 .. Len(last.parents) : parent[s] = last.parents[s]

\* C9  Chain termination: no call changes the parent of an existing scope,
\* each parent is an earlier scope or absent, and so LookupParent from any
\* scope ends, having visited each scope of the chain at most once, with nil
\* once the chain is exhausted.
C9_ChainTermination == ParentsKept /\ ChainsEnd

\* C9 witness: LookupParent walked a two-scope chain to its end
C9_Witness ==
  /\ last.op = "LookupParent"
  /\ Len(last.visited) = 2
  /\ last.visited = Chain(last.s)
  /\ last.ret = Ok(Nil)

\* C10  Concurrent Insert: as long as no Insert began on a scope that
\* another Insert was still inside, no scope holds two colliding entries;
\* interleaved, two Inserts of same-identity objects can both report no
\* conflict and leave both entries in the scope (the witness).
C10_SerialInsertsUnique ==
  ~raced =>
    \A s \in Scopes : \A i, j \in 1 .. Len(entries[s]) :
      i # j => ~SameIdent(entries[s][i], entries[s][j])

\* C10 witness: both contexts' Inserts on one scope returned nil and the
\* scope holds both objects, which are the same identifier
C10_Witness ==
  /\ \A c \in Ctxs : ctx[c].returned /\ ctx[c].ret = Ok(Nil)
  /\ ctx[1].s = ctx[2].s
  /\ ctx[1].obj # ctx[2].obj
  /\ SameIdent(ctx[1].obj, ctx[2].obj)
  /\ {ctx[1].obj, ctx[2].obj} \subseteq Elems(entries[ctx[1].s])

=============================================================================
